---- MODULE Spec2Model ----
(***************************************************************************)
(* Model of warden's Image Trust Validator (package validate:              *)
(* notaryService.Validate and its helpers) and of the Webhook              *)
(* Configuration Reconciler (package certs:                                *)
(* EnsureWebhookConfigurationFor).  Both live in                           *)
(* src/internal/webhook/certs/webhook.go.                                  *)
(*                                                                         *)
(* Strings are sequences of one-character strings, byte slices are         *)
(* sequences of numbers in 0..255.                                         *)
(***************************************************************************)
EXTENDS Integers, Sequences, FiniteSets, TLC

(***************************************************************************)
(* Bounds of the model.                                                    *)
(***************************************************************************)
\* longest image reference handed to Validate
MaxImageLen == 4
\* longest hex digest string a registry manifest carries
MaxHexLen == 4
\* longest digest the trust service publishes, in bytes
MaxDigestLen == 2

\* the delimiter between repository and tag
tagDelim == ":"

\* characters of image references
ImageChars == {"a", "b", tagDelim}
\* characters of a manifest's digest string: "g" is no hex digit
HexChars == {"0", "f", "g"}
\* byte values of the digests the trust service publishes
TrustBytes == {0, 255}
\* keys of a trust target's Hashes map
HashKeys == {"sha256", "sha512"}

RECURSIVE SeqsUpTo(_, _)
SeqsUpTo(S, n) ==
    IF n = 0 THEN {<<>>}
    ELSE LET shorter == SeqsUpTo(S, n - 1)
         IN  shorter \cup {Append(s, x) : s \in {t \in shorter : Len(t) = n - 1}, x \in S}

Images == SeqsUpTo(ImageChars, MaxImageLen)
Manifests == SeqsUpTo(HexChars, MaxHexLen)
TrustDigests == SeqsUpTo(TrustBytes, MaxDigestLen)

\* the Hashes maps a trust target may carry: none, one or two entries
TrustTargets ==
    UNION {[ks -> TrustDigests] : ks \in SUBSET HashKeys}

\* the allow lists a validator may be constructed with
AllowedChoices ==
    { <<>>,
      << <<"a">> >>,
      << <<>> >>,
      << <<"b", "b">>, <<"a", "b">> >> }

NotaryConfigs == {"https://notary"}

(***************************************************************************)
(* Error values of Validate (the messages of errors.New in the source) and *)
(* of its collaborators.                                                   *)
(***************************************************************************)
NoError == "nil"
ErrMalformedReference == "image name is not formatted correctly"
ErrEmptyArguments == "empty arguments provided"
ErrMissingHash == "image hash is missing"
ErrAmbiguousHash == "more than one hash for image"
ErrHashMismatch == "unexpected image hash value"
ErrRefParse == "ref parse"
ErrRegistryFetch == "get image"
ErrManifest == "image manifest"
ErrChecksumDecode == "checksum error"
ErrDeadlineExceeded == "context deadline exceeded"
\* errors of the trust collaborators, returned as they come
ErrRepoClient == "no such host"
ErrNoTrustData == "does not have trust data for"
RepoFactoryErrs == {ErrRepoClient}
\* the trust client has a timeout of its own, set by its factory
LookupErrs == {ErrNoTrustData, ErrDeadlineExceeded}
RegistryErrs == {ErrRefParse, ErrRegistryFetch, ErrManifest}

(***************************************************************************)
(* Constants of the reconciler.                                            *)
(***************************************************************************)
MutatingWebhook == "Mutating"
ValidatingWebHook == "Validating"
DefaultingWebhookName == "defaulting.webhook.warden.kyma-project.io"
ValidationWebhookName == "validation.webhook.warden.kyma-project.io"
WebhookTimeout == 15
PodValidationPath == "/validation/pods"
\* defaulting.WebhookPath, a constant of another package
DefaultingWebhookPath == "defaulting.WebhookPath"
\* the port of the webhook service
ServicePort == 443

\* the two kinds of object the cluster object store holds
MutatingKind == "MutatingWebhookConfiguration"
ValidatingKind == "ValidatingWebhookConfiguration"
Kinds == {MutatingKind, ValidatingKind}

\* values of the wt argument: the two named ones and one that is neither
WebHookTypes == {MutatingWebhook, ValidatingWebHook, "Other"}

\* the WebhookConfig values a caller may pass: two CA bundles, one service
WebhookConfigs ==
    [CABundel : {<<1>>, <<2>>}, ServiceNamespace : {"kyma-system"}, ServiceName : {"warden"}]

\* labels another actor may put on a live object
LabelSets == {{}, {"edited"}}

\* the store stops accepting writes of an object at this resource version
MaxResourceVersion == 3

\* errors of the cluster object store
ErrNotFound == "NotFound"
ErrAlreadyExists == "AlreadyExists"
ErrConflict == "Conflict"
ErrUnavailable == "Unavailable"
StoreOK == "ok"

\* the messages the reconciler wraps store errors with
MsgGetMutating == "failed to get defaulting MutatingWebhookConfiguration"
MsgCreateMutating == "while creating webhook mutation configuration"
MsgUpdateMutating == "while updating webhook mutation configuration"
MsgGetValidating == "failed to get validation ValidatingWebhookConfiguration"
NoMsg == ""

Reconcilers == {"r1", "r2"}

Callers == {"c1", "c2"}
\* the callers of the sequential specification
SeqCallers == {"c1"}

VARIABLES
    s,                  \* the notaryService: NotaryConfig and AllowedRegistries
    vpc,                \* per call: "idle", "factory", "lookup", "registry", "done"
    ctxDone,            \* per call: the context's deadline has expired
    image,              \* per call: the argument of Validate
    split,              \* per call: strings.Split(image, tagDelim)
    expectedShaBytes,   \* per call: the digest the trust service published
    shaBytes,           \* per call: the digest of the registry's manifest
    verr,               \* per call: what Validate returned
    invoked,            \* per call: the collaborators invoked during the call
    expiredPending,     \* per call: the deadline expired while a lookup was pending
    target,             \* per call: the Hashes of the target the trust lookup returned
    answered,           \* per call: which collaborators answered with a value
    store,              \* the cluster object store: the set of objects it holds
    rpc,                \* per reconcile: "idle", "get", "create", "update", "done"
    wt,                 \* per reconcile: the WebHookType argument
    config,             \* per reconcile: the WebhookConfig argument
    whc,                \* per reconcile: the live object as fetched (mwhc, vwhc)
    ensuredWhc,         \* per reconcile: the object built for the write
    rerr,               \* per reconcile: what EnsureWebhookConfigurationFor returned
    ops,                \* per reconcile: the store operations issued during the call
    got,                \* per reconcile: what client.Get showed the call
    settled,            \* per kind: the config of the last reconcile that returned nil
    disturbed           \* per reconcile: another actor wrote the object during the call

vvars == <<s, vpc, ctxDone, image, split, expectedShaBytes, shaBytes, verr,
           invoked, expiredPending, target, answered>>

rvars == <<store, rpc, wt, config, whc, ensuredWhc, rerr, ops, got, settled,
           disturbed>>

vars == <<vvars, rvars>>

(***************************************************************************)
(* Pure helpers of Validate.                                               *)
(***************************************************************************)
\* index of the first element of str equal to sep, 0 if none
Index(str, sep) ==
    IF \E i \in 1..Len(str) : str[i] = sep
    THEN CHOOSE i \in 1..Len(str) : str[i] = sep /\ \A j \in 1..(i - 1) : str[j] # sep
    ELSE 0

\* a buggy split: cuts at the first separator only, as strings.SplitN(s, sep, 2)
SplitFirstOnly(str, sep) ==
    LET i == Index(str, sep)
    IN  IF i = 0 THEN <<str>>
        ELSE <<SubSeq(str, 1, i - 1), SubSeq(str, i + 1, Len(str))>>

\* strings.Split(str, sep) for a one-character separator
RECURSIVE Split(_, _)
Split(str, sep) ==
    LET i == Index(str, sep)
    IN  IF i = 0 THEN <<str>>
        ELSE <<SubSeq(str, 1, i - 1)>> \o Split(SubSeq(str, i + 1, Len(str)), sep)

\* strings.HasPrefix
HasPrefix(str, prefix) ==
    /\ Len(prefix) <= Len(str)
    /\ SubSeq(str, 1, Len(prefix)) = prefix

\* a buggy allow check: the repository must equal an entry
isImageAllowedExact(allowedRegistries, imgRepo) ==
    \E i \in 1..Len(allowedRegistries) : imgRepo = allowedRegistries[i]

\* a buggy allow list: only its first entry is tried
isImageAllowedFirstOnly(allowedRegistries, imgRepo) ==
    Len(allowedRegistries) > 0 /\ HasPrefix(imgRepo, allowedRegistries[1])

\* notaryService.isImageAllowed
isImageAllowed(allowedRegistries, imgRepo) ==
    \E i \in 1..Len(allowedRegistries) : HasPrefix(imgRepo, allowedRegistries[i])

\* bitwise operations on bytes
RECURSIVE Xor(_, _)
Xor(x, y) ==
    IF x = 0 /\ y = 0 THEN 0
    ELSE (IF x % 2 = y % 2 THEN 0 ELSE 1) + 2 * Xor(x \div 2, y \div 2)

RECURSIVE Or(_, _)
Or(x, y) ==
    IF x = 0 /\ y = 0 THEN 0
    ELSE (IF x % 2 = 1 \/ y % 2 = 1 THEN 1 ELSE 0) + 2 * Or(x \div 2, y \div 2)

\* subtle.ConstantTimeByteEq: int((uint32(x^y) - 1) >> 31).  The top bit of the
\* 32-bit difference is the sign of x^y - 1 in two's complement, taken here by an
\* arithmetic shift of 31 places (30 and 1: 2^31 is no 32-bit integer).
ConstantTimeByteEq(x, y) == (((Xor(x, y) - 1) \div (2^30)) \div 2) % 2

\* the accumulator v of subtle.ConstantTimeCompare after the first n bytes
RECURSIVE XorFold(_, _, _)
XorFold(x, y, n) ==
    IF n = 0 THEN 0 ELSE Or(XorFold(x, y, n - 1), Xor(x[n], y[n]))

\* a buggy comparison: no length check, compares the common prefix
CompareCommonPrefix(x, y) ==
    LET n == IF Len(x) < Len(y) THEN Len(x) ELSE Len(y)
    IN  ConstantTimeByteEq(XorFold(x, y, n), 0)

\* subtle.ConstantTimeCompare
ConstantTimeCompare(x, y) ==
    IF Len(x) # Len(y) THEN 0
    ELSE ConstantTimeByteEq(XorFold(x, y, Len(x)), 0)

\* a comparison that returns at the first difference: the byte positions it reads
ComparedPositionsToFirstDifference(x, y) ==
    IF Len(x) # Len(y) THEN {}
    ELSE {i \in 1..Len(x) : \A j \in 1..(i - 1) : x[j] = y[j]}

\* the byte positions the loop of subtle.ConstantTimeCompare reads: none when
\* the lengths differ, every position of the slices otherwise
ComparedPositions(x, y) ==
    IF Len(x) # Len(y) THEN {} ELSE {i \in 1..Len(x) : XorFold(x, y, i) \in 0..255}

\* value of a hex digit, -1 for any other character
HexVal(ch) ==
    CASE ch = "0" -> 0
      [] ch = "f" -> 15
      [] OTHER -> -1

\* the bytes of the first n pairs of a hex string
RECURSIVE HexPairs(_, _)
HexPairs(str, n) ==
    IF n = 0 THEN <<>>
    ELSE Append(HexPairs(str, n - 1), 16 * HexVal(str[2 * n - 1]) + HexVal(str[2 * n]))

\* hex.DecodeString: an error for a character that is no hex digit or an odd length
HexDecode(str) ==
    IF (\E i \in 1..Len(str) : HexVal(str[i]) < 0) \/ Len(str) % 2 = 1
    THEN [err |-> TRUE, bytes |-> <<>>]
    ELSE [err |-> FALSE, bytes |-> HexPairs(str, Len(str) \div 2)]

\* a buggy hash check: more than one entry is let through
HashCheckNoAmbiguity(hashes) ==
    IF Cardinality(DOMAIN hashes) = 0 THEN ErrMissingHash ELSE NoError

\* the two length checks of getNotaryImageDigestHash on target.Hashes
HashCheck(hashes) ==
    IF Cardinality(DOMAIN hashes) = 0 THEN ErrMissingHash
    ELSE IF Cardinality(DOMAIN hashes) > 1 THEN ErrAmbiguousHash
    ELSE NoError

\* a buggy argument check: only a reference with both parts empty is refused
EmptyArgumentsBoth(imgRepo, imgTag) == Len(imgRepo) = 0 /\ Len(imgTag) = 0

\* the argument check of getNotaryImageDigestHash: len(imgRepo) == 0 || len(imgTag) == 0
EmptyArguments(imgRepo, imgTag) == Len(imgRepo) = 0 \/ Len(imgTag) = 0

\* the key the range loop of getNotaryImageDigestHash ends with, and its entry
SingleHash(hashes) ==
    LET key == CHOOSE k \in DOMAIN hashes : TRUE
    IN  hashes[key]

(***************************************************************************)
(* The Image Trust Validator.  A call of Validate takes one step for the   *)
(* code up to its first outbound call and one step for each answer of a    *)
(* collaborator.                                                           *)
(***************************************************************************)
NoneInvoked == [factory |-> 0, lookup |-> 0, registry |-> 0]
\* target: GetTargetByName returned a target; digest: getImageDigestHash returned
\* bytes; failure: the error a collaborator answered with; examined: the byte
\* positions the comparison of the two digests read
NoneAnswered == [target |-> FALSE, digest |-> FALSE, failure |-> NoError, examined |-> {}]
\* a Hashes map without entries
NoHashes == [k \in {} |-> <<>>]

\* a buggy validator: the expected digest is kept where every call reads it
ExpectedShaBytesShared(c) == expectedShaBytes[CHOOSE d \in Callers : TRUE]

\* the local variable expectedShaBytes of the call of c
ExpectedShaBytesOf(c) == expectedShaBytes[c]

\* NewImageValidator: the state after construction
VInit ==
    /\ s \in [NotaryConfig : NotaryConfigs, AllowedRegistries : AllowedChoices]
    /\ vpc = [c \in Callers |-> "idle"]
    /\ ctxDone = [c \in Callers |-> FALSE]
    /\ image = [c \in Callers |-> <<>>]
    /\ split = [c \in Callers |-> <<>>]
    /\ expectedShaBytes = [c \in Callers |-> <<>>]
    /\ shaBytes = [c \in Callers |-> <<>>]
    /\ verr = [c \in Callers |-> NoError]
    /\ invoked = [c \in Callers |-> NoneInvoked]
    /\ expiredPending = [c \in Callers |-> FALSE]
    /\ target = [c \in Callers |-> NoHashes]
    /\ answered = [c \in Callers |-> NoneAnswered]

\* a buggy return: the error of the failing step is dropped
VReturnDropsError(c, err) ==
    /\ vpc' = [vpc EXCEPT ![c] = "done"]
    /\ verr' = [verr EXCEPT ![c] = NoError]

\* Validate returns err
VReturn(c, err) ==
    /\ vpc' = [vpc EXCEPT ![c] = "done"]
    /\ verr' = [verr EXCEPT ![c] = err]

\* Validate up to the call of RepoFactory.NewRepoClient: the split, the allow
\* list and the empty-argument check of getNotaryImageDigestHash
Validate(c, img) ==
    /\ vpc[c] = "idle"
    /\ image' = [image EXCEPT ![c] = img]
    /\ split' = [split EXCEPT ![c] = Split(img, tagDelim)]
    /\ ctxDone' = [ctxDone EXCEPT ![c] = FALSE]
    /\ expiredPending' = [expiredPending EXCEPT ![c] = FALSE]
    /\ invoked' = [invoked EXCEPT ![c] = NoneInvoked]
    /\ expectedShaBytes' = [expectedShaBytes EXCEPT ![c] = <<>>]
    /\ shaBytes' = [shaBytes EXCEPT ![c] = <<>>]
    /\ target' = [target EXCEPT ![c] = NoHashes]
    /\ answered' = [answered EXCEPT ![c] = NoneAnswered]
    /\ LET sp == Split(img, tagDelim)
       IN  IF Len(sp) # 2
           THEN VReturn(c, ErrMalformedReference)
           ELSE IF isImageAllowed(s.AllowedRegistries, sp[1])
           THEN VReturn(c, NoError)
           ELSE IF EmptyArguments(sp[1], sp[2])
           THEN VReturn(c, ErrEmptyArguments)
           ELSE /\ vpc' = [vpc EXCEPT ![c] = "factory"]
                /\ verr' = [verr EXCEPT ![c] = NoError]
    /\ UNCHANGED <<s, rvars>>

\* RepoFactory.NewRepoClient(imgRepo, s.NotaryConfig) answers: an error, or a client
NewRepoClient(c) ==
    /\ vpc[c] = "factory"
    /\ invoked' = [invoked EXCEPT ![c].factory = @ + 1]
    /\ \/ \E err \in RepoFactoryErrs :
            /\ VReturn(c, err)
            /\ answered' = [answered EXCEPT ![c].failure = err]
       \/ /\ vpc' = [vpc EXCEPT ![c] = "lookup"]
          /\ UNCHANGED <<verr, answered>>
    /\ UNCHANGED <<s, ctxDone, image, split, expectedShaBytes, shaBytes, expiredPending,
                   target, rvars>>

\* c.GetTargetByName(imgTag) answers: an error, or a target with its Hashes;
\* then the rest of getNotaryImageDigestHash
GetTargetByName(c) ==
    /\ vpc[c] = "lookup"
    /\ invoked' = [invoked EXCEPT ![c].lookup = @ + 1]
    /\ \/ /\ \E err \in LookupErrs :
                /\ VReturn(c, err)
                /\ answered' = [answered EXCEPT ![c].failure = err]
          /\ UNCHANGED <<expectedShaBytes, target>>
       \/ \E hashes \in TrustTargets :
            /\ target' = [target EXCEPT ![c] = hashes]
            /\ answered' = [answered EXCEPT ![c].target = TRUE]
            /\ IF HashCheck(hashes) # NoError
               THEN /\ VReturn(c, HashCheck(hashes))
                    /\ UNCHANGED expectedShaBytes
               ELSE /\ expectedShaBytes' = [expectedShaBytes EXCEPT ![c] = SingleHash(hashes)]
                    /\ vpc' = [vpc EXCEPT ![c] = "registry"]
                    /\ UNCHANGED verr
    /\ UNCHANGED <<s, ctxDone, image, split, shaBytes, expiredPending, rvars>>

\* getImageDigestHash(image): the registry answers with an error or with a
\* manifest, whose digest is hex-decoded; then the comparison of Validate
GetImageDigestHash(c) ==
    /\ vpc[c] = "registry"
    /\ invoked' = [invoked EXCEPT ![c].registry = @ + 1]
    /\ \/ /\ \E err \in RegistryErrs :
                /\ VReturn(c, err)
                /\ answered' = [answered EXCEPT ![c].failure = err]
          /\ UNCHANGED shaBytes
       \/ \E hex \in Manifests :
            LET decoded == HexDecode(hex)
            IN  IF decoded.err
                THEN /\ VReturn(c, ErrChecksumDecode)
                     /\ answered' = [answered EXCEPT ![c].failure = ErrChecksumDecode]
                     /\ UNCHANGED shaBytes
                ELSE /\ shaBytes' = [shaBytes EXCEPT ![c] = decoded.bytes]
                     /\ answered' = [answered EXCEPT
                            ![c].digest = TRUE,
                            ![c].examined = ComparedPositions(decoded.bytes,
                                                              ExpectedShaBytesOf(c))]
                     /\ IF ConstantTimeCompare(decoded.bytes, ExpectedShaBytesOf(c)) = 0
                        THEN VReturn(c, ErrHashMismatch)
                        ELSE VReturn(c, NoError)
    /\ UNCHANGED <<s, ctxDone, image, split, expectedShaBytes, expiredPending, target, rvars>>

\* the caller drops the result of a finished call and is free to call again
Forget(c) ==
    /\ vpc[c] = "done"
    /\ vpc' = [vpc EXCEPT ![c] = "idle"]
    /\ ctxDone' = [ctxDone EXCEPT ![c] = FALSE]
    /\ image' = [image EXCEPT ![c] = <<>>]
    /\ split' = [split EXCEPT ![c] = <<>>]
    /\ expectedShaBytes' = [expectedShaBytes EXCEPT ![c] = <<>>]
    /\ shaBytes' = [shaBytes EXCEPT ![c] = <<>>]
    /\ verr' = [verr EXCEPT ![c] = NoError]
    /\ invoked' = [invoked EXCEPT ![c] = NoneInvoked]
    /\ expiredPending' = [expiredPending EXCEPT ![c] = FALSE]
    /\ target' = [target EXCEPT ![c] = NoHashes]
    /\ answered' = [answered EXCEPT ![c] = NoneAnswered]
    /\ UNCHANGED <<s, rvars>>

\* the deadline of the call's context expires while the call waits for a collaborator
CtxExpire(c) ==
    /\ vpc[c] \in {"factory", "lookup", "registry"}
    /\ ~ctxDone[c]
    /\ ctxDone' = [ctxDone EXCEPT ![c] = TRUE]
    /\ expiredPending' = [expiredPending EXCEPT ![c] = vpc[c] \in {"lookup", "registry"}]
    /\ UNCHANGED <<s, vpc, image, split, expectedShaBytes, shaBytes, verr, invoked,
                   target, answered, rvars>>

(***************************************************************************)
(* The Webhook Configuration Reconciler: the desired objects.              *)
(***************************************************************************)
\* the one rule both webhooks carry: Create and Update of pods, all scopes
PodRules ==
    << [APIGroups |-> <<"">>, APIVersions |-> <<"v1">>, Resources |-> <<"pods">>,
        Scope |-> "*", Operations |-> <<"CREATE", "UPDATE">>] >>

\* a buggy mutating webhook: fails open
getFunctionMutatingWebhookCfgFailOpen(cfg) ==
    [Name |-> DefaultingWebhookName,
     AdmissionReviewVersions |-> <<"v1beta1", "v1">>,
     ClientConfig |-> [CABundle |-> cfg.CABundel,
                       Service |-> [Namespace |-> cfg.ServiceNamespace,
                                    Name |-> cfg.ServiceName,
                                    Path |-> DefaultingWebhookPath,
                                    Port |-> ServicePort]],
     FailurePolicy |-> "Ignore",
     MatchPolicy |-> "Exact",
     ReinvocationPolicy |-> "Never",
     Rules |-> PodRules,
     SideEffects |-> "None",
     TimeoutSeconds |-> WebhookTimeout]

\* getFunctionMutatingWebhookCfg
getFunctionMutatingWebhookCfg(cfg) ==
    [Name |-> DefaultingWebhookName,
     AdmissionReviewVersions |-> <<"v1beta1", "v1">>,
     ClientConfig |-> [CABundle |-> cfg.CABundel,
                       Service |-> [Namespace |-> cfg.ServiceNamespace,
                                    Name |-> cfg.ServiceName,
                                    Path |-> DefaultingWebhookPath,
                                    Port |-> ServicePort]],
     FailurePolicy |-> "Fail",
     MatchPolicy |-> "Exact",
     ReinvocationPolicy |-> "Never",
     Rules |-> PodRules,
     SideEffects |-> "None",
     TimeoutSeconds |-> WebhookTimeout]

\* the ObjectMeta of an object that was never stored
NewObjectMeta(name) == [Name |-> name, ResourceVersion |-> 0, Labels |-> {}]

\* createMutatingWebhookConfiguration
createMutatingWebhookConfiguration(cfg) ==
    [kind |-> MutatingKind,
     ObjectMeta |-> NewObjectMeta(DefaultingWebhookName),
     Webhooks |-> <<getFunctionMutatingWebhookCfg(cfg)>>]

\* a buggy validating object: built with a CA bundle of its own, not the config's
createValidatingWebhookConfigurationNoBundle(cfg) ==
    [kind |-> ValidatingKind,
     ObjectMeta |-> NewObjectMeta(ValidationWebhookName),
     Webhooks |-> << [Name |-> ValidationWebhookName,
                      AdmissionReviewVersions |-> <<"v1beta1", "v1">>,
                      ClientConfig |-> [CABundle |-> <<>>,
                                        Service |-> [Namespace |-> cfg.ServiceNamespace,
                                                     Name |-> cfg.ServiceName,
                                                     Path |-> PodValidationPath,
                                                     Port |-> ServicePort]],
                      FailurePolicy |-> "Ignore",
                      MatchPolicy |-> "Exact",
                      Rules |-> PodRules,
                      SideEffects |-> "None",
                      TimeoutSeconds |-> WebhookTimeout] >>]

\* createValidatingWebhookConfiguration
createValidatingWebhookConfiguration(cfg) ==
    [kind |-> ValidatingKind,
     ObjectMeta |-> NewObjectMeta(ValidationWebhookName),
     Webhooks |-> << [Name |-> ValidationWebhookName,
                      AdmissionReviewVersions |-> <<"v1beta1", "v1">>,
                      ClientConfig |-> [CABundle |-> cfg.CABundel,
                                        Service |-> [Namespace |-> cfg.ServiceNamespace,
                                                     Name |-> cfg.ServiceName,
                                                     Path |-> PodValidationPath,
                                                     Port |-> ServicePort]],
                      FailurePolicy |-> "Ignore",
                      MatchPolicy |-> "Exact",
                      Rules |-> PodRules,
                      SideEffects |-> "None",
                      TimeoutSeconds |-> WebhookTimeout] >>]

\* a buggy dispatch: every value but ValidatingWebHook reconciles the mutating kind
TargetKindDefaultMutating(w) == IF w = ValidatingWebHook THEN ValidatingKind ELSE MutatingKind

\* the dispatch of EnsureWebhookConfigurationFor: the kind a wt value reconciles
TargetKind(w) == IF w = MutatingWebhook THEN MutatingKind ELSE ValidatingKind

\* the name the reconciler of a kind passes to client.Get
GetName(kind) ==
    IF kind = MutatingKind THEN DefaultingWebhookName ELSE ValidationWebhookName

\* a buggy reconciler pair: both kinds build the mutating object
DesiredObjectAlwaysMutating(kind, cfg) == createMutatingWebhookConfiguration(cfg)

\* the object the reconciler of a kind builds from config
DesiredObject(kind, cfg) ==
    IF kind = MutatingKind
    THEN createMutatingWebhookConfiguration(cfg)
    ELSE createValidatingWebhookConfiguration(cfg)

\* reflect.DeepEqual on two values of the model
DeepEqual(x, y) == x = y

\* a buggy drift test: compares the whole objects, metadata included
ObjectsDiffer(ensured, live) == ~DeepEqual(ensured, live)

\* a buggy drift test: never sees a difference
NeverDiffer(ensured, live) == FALSE

\* the drift test: !reflect.DeepEqual(ensured.Webhooks, live.Webhooks)
WebhooksDiffer(ensured, live) == ~DeepEqual(ensured.Webhooks, live.Webhooks)

\* a buggy update object: the metadata of the live object is not copied
ForUpdateFreshMeta(ensured, live) == ensured

\* the object handed to client.Update: ensured.ObjectMeta = *live.ObjectMeta.DeepCopy()
ForUpdate(ensured, live) == [ensured EXCEPT !.ObjectMeta = live.ObjectMeta]

\* the value of an error variable: a cause and the message it was wrapped with
Error(msg, cause) == [msg |-> msg, cause |-> cause]
NilError == Error(NoMsg, NoError)

\* a buggy wrap: a nil error is wrapped too, and comes back as an error
WrapAlways(err, msg) == Error(msg, err.cause)

\* errors.Wrap and errors.Wrapf: nil stays nil
Wrap(err, msg) == IF err = NilError THEN NilError ELSE Error(msg, err.cause)

\* the answer of a store operation as a Go error
StoreError(ans) == IF ans = StoreOK THEN NilError ELSE Error(NoMsg, ans)

\* what the reconciler of a kind returns for the error of client.Get
GetResult(kind, err) ==
    IF kind = MutatingKind THEN Wrap(err, MsgGetMutating) ELSE Wrap(err, MsgGetValidating)

\* what the reconciler of a kind returns for the error of client.Create
CreateResult(kind, err) ==
    IF kind = MutatingKind THEN Wrap(err, MsgCreateMutating) ELSE err

\* what the reconciler of a kind returns for the error of client.Update
UpdateResult(kind, err) ==
    IF kind = MutatingKind THEN Wrap(err, MsgUpdateMutating) ELSE err

(***************************************************************************)
(* The cluster object store, as the reconciler sees it through client.Get, *)
(* client.Create and client.Update.  Any operation may fail with an error  *)
(* of the store's own (ErrUnavailable).                                    *)
(***************************************************************************)
NoObject == [kind |-> "none", ObjectMeta |-> NewObjectMeta(""), Webhooks |-> <<>>]
NoOps == [get |-> 0, create |-> 0, update |-> 0]
\* what client.Get showed a reconcile: nothing yet, no object, an object whose
\* webhooks equal the desired ones, an object whose webhooks differ, an error
GotNothing == "nothing"
GotNotFound == "not found"
GotSame == "same webhooks"
GotDrift == "other webhooks"
GotError == "error"
\* no reconcile of the kind has returned nil yet
NotSettled == [CABundel |-> <<>>, ServiceNamespace |-> "", ServiceName |-> ""]
\* the WebhookConfig of a reconcile that is not running
NoConfig == CHOOSE cfg \in WebhookConfigs : TRUE

\* the objects of a kind the store holds under a name
Live(kind, name) == {o \in store : o.kind = kind /\ o.ObjectMeta.Name = name}

\* the answers client.Get may give for a kind and a name
GetAnswers(kind, name) ==
    {ErrUnavailable} \cup (IF Live(kind, name) = {} THEN {ErrNotFound} ELSE {StoreOK})

\* the answers client.Create may give for an object
CreateAnswers(obj) ==
    {ErrUnavailable}
        \cup (IF Live(obj.kind, obj.ObjectMeta.Name) = {} THEN {StoreOK} ELSE {ErrAlreadyExists})

\* the answers client.Update may give for an object: a store may or may not
\* refuse an object whose resource version is no longer the live one
UpdateAnswers(obj) ==
    LET live == Live(obj.kind, obj.ObjectMeta.Name)
    IN  {ErrUnavailable}
            \cup (IF live = {} THEN {ErrNotFound} ELSE {})
            \cup {StoreOK : o \in {l \in live : l.ObjectMeta.ResourceVersion < MaxResourceVersion}}
            \cup {ErrConflict : o \in {l \in live :
                        l.ObjectMeta.ResourceVersion # obj.ObjectMeta.ResourceVersion}}

\* the store after it accepted the creation of obj
Created(obj) == store \cup {[obj EXCEPT !.ObjectMeta.ResourceVersion = 1]}

\* the store after it accepted the update of obj
Updated(obj) ==
    LET live == Live(obj.kind, obj.ObjectMeta.Name)
        old == CHOOSE o \in live : TRUE
    IN  (store \ live)
            \cup {[obj EXCEPT !.ObjectMeta.ResourceVersion = old.ObjectMeta.ResourceVersion + 1]}

\* the reconciles of a kind in progress, apart from r
OthersActive(r, kind) ==
    {q \in Reconcilers \ {r} :
        rpc[q] \in {"get", "create", "update"} /\ TargetKind(wt[q]) = kind}

\* a write of actor r to the object of a kind disturbs the reconciles in progress
Disturb(r, kind) ==
    disturbed' = [q \in Reconcilers |->
                    IF q \in OthersActive(r, kind) THEN TRUE ELSE disturbed[q]]

(***************************************************************************)
(* The reconciler.  A call takes one step per store operation.             *)
(***************************************************************************)
RInit ==
    /\ store = {}
    /\ rpc = [r \in Reconcilers |-> "idle"]
    /\ wt = [r \in Reconcilers |-> MutatingWebhook]
    /\ config = [r \in Reconcilers |-> NoConfig]
    /\ whc = [r \in Reconcilers |-> NoObject]
    /\ ensuredWhc = [r \in Reconcilers |-> NoObject]
    /\ rerr = [r \in Reconcilers |-> NilError]
    /\ ops = [r \in Reconcilers |-> NoOps]
    /\ got = [r \in Reconcilers |-> GotNothing]
    /\ settled = [k \in Kinds |-> NotSettled]
    /\ disturbed = [r \in Reconcilers |-> FALSE]

\* the reconcile returns err
RReturn(r, err) ==
    /\ rpc' = [rpc EXCEPT ![r] = "done"]
    /\ settled' = IF err = NilError
                  THEN [settled EXCEPT ![TargetKind(wt[r])] = config[r]]
                  ELSE settled
    /\ rerr' = [rerr EXCEPT ![r] = err]
    /\ whc' = [whc EXCEPT ![r] = NoObject]
    /\ ensuredWhc' = [ensuredWhc EXCEPT ![r] = NoObject]
    /\ config' = [config EXCEPT ![r] = NoConfig]

\* EnsureWebhookConfigurationFor(ctx, client, cfg, w) is called
EnsureWebhookConfigurationFor(r, w, cfg) ==
    /\ rpc[r] \in {"idle", "done"}
    /\ rpc' = [rpc EXCEPT ![r] = "get"]
    /\ wt' = [wt EXCEPT ![r] = w]
    /\ config' = [config EXCEPT ![r] = cfg]
    /\ rerr' = [rerr EXCEPT ![r] = NilError]
    /\ ops' = [ops EXCEPT ![r] = NoOps]
    /\ got' = [got EXCEPT ![r] = GotNothing]
    /\ disturbed' = [disturbed EXCEPT ![r] = FALSE]
    /\ UNCHANGED <<store, whc, ensuredWhc, settled, vvars>>

\* client.Get answers, and ensure...WebhookConfigFor runs up to its write
ClientGet(r) ==
    LET kind == TargetKind(wt[r])
        name == GetName(kind)
        ensured == DesiredObject(kind, config[r])
    IN  /\ rpc[r] = "get"
        /\ ops' = [ops EXCEPT ![r].get = @ + 1]
        /\ \E ans \in GetAnswers(kind, name) :
              IF ans = ErrNotFound
              THEN /\ rpc' = [rpc EXCEPT ![r] = "create"]
                   /\ ensuredWhc' = [ensuredWhc EXCEPT ![r] = ensured]
                   /\ got' = [got EXCEPT ![r] = GotNotFound]
                   /\ UNCHANGED <<whc, rerr, config, settled>>
              ELSE IF ans # StoreOK
              THEN /\ RReturn(r, GetResult(kind, StoreError(ans)))
                   /\ got' = [got EXCEPT ![r] = GotError]
              ELSE LET live == CHOOSE o \in Live(kind, name) : TRUE
                   IN  IF WebhooksDiffer(ensured, live)
                       THEN /\ rpc' = [rpc EXCEPT ![r] = "update"]
                            /\ whc' = [whc EXCEPT ![r] = live]
                            /\ ensuredWhc' = [ensuredWhc EXCEPT ![r] = ForUpdate(ensured, live)]
                            /\ got' = [got EXCEPT ![r] = GotDrift]
                            /\ UNCHANGED <<rerr, config, settled>>
                       ELSE /\ RReturn(r, NilError)
                            /\ got' = [got EXCEPT ![r] = GotSame]
        /\ UNCHANGED <<store, wt, disturbed, vvars>>

\* client.Create answers, and the reconcile returns
ClientCreate(r) ==
    LET kind == TargetKind(wt[r])
    IN  /\ rpc[r] = "create"
        /\ ops' = [ops EXCEPT ![r].create = @ + 1]
        /\ \E ans \in CreateAnswers(ensuredWhc[r]) :
              /\ RReturn(r, CreateResult(kind, StoreError(ans)))
              /\ IF ans = StoreOK
                 THEN /\ store' = Created(ensuredWhc[r])
                      /\ Disturb(r, ensuredWhc[r].kind)
                 ELSE UNCHANGED <<store, disturbed>>
        /\ UNCHANGED <<wt, got, vvars>>

\* client.Update answers, and the reconcile returns
ClientUpdate(r) ==
    LET kind == TargetKind(wt[r])
    IN  /\ rpc[r] = "update"
        /\ ops' = [ops EXCEPT ![r].update = @ + 1]
        /\ \E ans \in UpdateAnswers(ensuredWhc[r]) :
              /\ RReturn(r, UpdateResult(kind, StoreError(ans)))
              /\ IF ans = StoreOK
                 THEN /\ store' = Updated(ensuredWhc[r])
                      /\ Disturb(r, ensuredWhc[r].kind)
                 ELSE UNCHANGED <<store, disturbed>>
        /\ UNCHANGED <<wt, got, vvars>>

\* another actor of the cluster relabels a live object
ExternalEdit(kind) ==
    \E o \in store : \E labels \in LabelSets :
        /\ o.kind = kind
        /\ o.ObjectMeta.ResourceVersion < MaxResourceVersion
        /\ labels # o.ObjectMeta.Labels
        /\ store' = (store \ {o})
                \cup {[o EXCEPT !.ObjectMeta.Labels = labels,
                               !.ObjectMeta.ResourceVersion = @ + 1]}
        /\ disturbed' = [q \in Reconcilers |->
                            IF rpc[q] \in {"get", "create", "update"}
                               /\ TargetKind(wt[q]) = kind
                            THEN TRUE ELSE disturbed[q]]
        /\ UNCHANGED <<rpc, wt, config, whc, ensuredWhc, rerr, ops, got, settled, vvars>>

(***************************************************************************)
(* The specifications.                                                     *)
(***************************************************************************)
VNext ==
    \E c \in SeqCallers :
        \/ \E img \in Images : Validate(c, img)
        \/ Forget(c)
        \/ NewRepoClient(c)
        \/ GetTargetByName(c)
        \/ GetImageDigestHash(c)
        \/ CtxExpire(c)

RNext ==
    \/ \E r \in Reconcilers :
        \/ \E w \in WebHookTypes : \E cfg \in WebhookConfigs :
              EnsureWebhookConfigurationFor(r, w, cfg)
        \/ ClientGet(r)
        \/ ClientCreate(r)
        \/ ClientUpdate(r)
    \/ \E kind \in Kinds : ExternalEdit(kind)

\* one caller of Validate at a time; no reconcile runs
InitValidate == VInit /\ RInit
SpecValidate == InitValidate /\ [][VNext]_vars

\* the inputs of concurrent calls: a reference that may be allow-listed, one
\* that is not, an empty one and a malformed one; targets and digests of at
\* most one byte
ConcImages == {<<"a", ":", "a">>, <<"b", ":", "a">>, <<":">>, <<"a">>}
ConcTargets ==
    {t \in TrustTargets :
        \A k \in DOMAIN t : t[k] \in {<<0>>, <<255>>} /\ \A j \in DOMAIN t : t[j] = t[k]}
ConcDigests == {<<>>, <<0>>, <<255>>}

\* GetTargetByName and getImageDigestHash of a concurrent call
ConcGetTargetByName(c) == GetTargetByName(c) /\ target'[c] \in ConcTargets
ConcGetImageDigestHash(c) == GetImageDigestHash(c) /\ shaBytes'[c] \in ConcDigests

\* the calls of all callers interleave, step by step; their contexts carry no
\* deadline
VConcNext ==
    \E c \in Callers :
        \/ \E img \in ConcImages : Validate(c, img)
        \/ Forget(c)
        \/ NewRepoClient(c)
        \/ ConcGetTargetByName(c)
        \/ ConcGetImageDigestHash(c)

\* two callers of one validator at a time; no reconcile runs
InitValidateConc == VInit /\ RInit
SpecValidateConc == InitValidateConc /\ [][VConcNext]_vars

\* reconciles of both kinds, two at a time; the validator runs no validation
InitReconcile == VInit /\ s.AllowedRegistries = <<>> /\ RInit
SpecReconcile == InitReconcile /\ [][RNext]_vars

(***************************************************************************)
(* Vocabulary of the properties of Validate, stated on the image reference *)
(* and the answers of the collaborators, not on the helpers of the code.   *)
(***************************************************************************)
\* the number of delimiters in an image reference
Delimiters(img) == Cardinality({i \in 1..Len(img) : img[i] = ":"})

\* the part of a reference before its first delimiter, and the part after it
RepositoryOf(img) ==
    LET i == CHOOSE k \in 1..Len(img) : img[k] = ":" /\ \A j \in 1..(k - 1) : img[j] # ":"
    IN  [k \in 1..(i - 1) |-> img[k]]
TagOf(img) ==
    LET i == CHOOSE k \in 1..Len(img) : img[k] = ":" /\ \A j \in 1..(k - 1) : img[j] # ":"
    IN  [k \in 1..(Len(img) - i) |-> img[i + k]]

\* str starts with prefix
StartsWith(str, prefix) ==
    /\ Len(prefix) <= Len(str)
    /\ \A j \in 1..Len(prefix) : str[j] = prefix[j]

\* the reference has one delimiter and its repository starts with an allowed entry
AllowListed(img) ==
    /\ Delimiters(img) = 1
    /\ \E i \in 1..Len(s.AllowedRegistries) :
          StartsWith(RepositoryOf(img), s.AllowedRegistries[i])

\* the reference has one delimiter and its repository starts with no allowed entry
NotAllowListed(img) == Delimiters(img) = 1 /\ ~AllowListed(img)

\* two byte sequences of the same length with the same byte at every position
SameBytes(x, y) ==
    /\ Len(x) = Len(y)
    /\ \A i \in 1..Len(x) : x[i] = y[i]

\* the call of c has started and not been forgotten
InCall(c) == vpc[c] # "idle"

(***************************************************************************)
(* C1: for a reference with one delimiter that is not allow-listed, when   *)
(* the trust lookup returned exactly one hash and the registry fetch       *)
(* returned a digest, Validate succeeds if the two byte sequences are      *)
(* equal and fails with "unexpected image hash value" if they are not.     *)
(***************************************************************************)
C1_DigestsDecide ==
    \A c \in Callers :
        ( /\ vpc[c] = "done"
          /\ NotAllowListed(image[c])
          /\ answered[c].target
          /\ Cardinality(DOMAIN target[c]) = 1
          /\ answered[c].digest )
        => \A k \in DOMAIN target[c] :
              IF SameBytes(shaBytes[c], target[c][k])
              THEN verr[c] = NoError
              ELSE verr[c] = ErrHashMismatch

\* a call that succeeded on two equal digests of two bytes
C1_Witness ==
    \E c \in Callers :
        /\ vpc[c] = "done"
        /\ NotAllowListed(image[c])
        /\ answered[c].target /\ answered[c].digest
        /\ Len(shaBytes[c]) = 2
        /\ shaBytes[c] = expectedShaBytes[c]
        /\ verr[c] = NoError

(***************************************************************************)
(* C2: for a reference with one delimiter whose repository starts with an  *)
(* entry of AllowedRegistries, Validate returns success and invokes        *)
(* neither the trust client factory, nor the target lookup, nor the        *)
(* registry fetch.                                                         *)
(***************************************************************************)
C2_AllowListedBypass ==
    \A c \in Callers :
        (InCall(c) /\ AllowListed(image[c]))
        => /\ vpc[c] = "done"
           /\ verr[c] = NoError
           /\ invoked[c] = NoneInvoked

\* a finished call on a reference whose repository is longer than the entry it starts with
C2_Witness ==
    \E c \in Callers :
        /\ vpc[c] = "done"
        /\ AllowListed(image[c])
        /\ \E i \in 1..Len(s.AllowedRegistries) :
              /\ StartsWith(RepositoryOf(image[c]), s.AllowedRegistries[i])
              /\ Len(s.AllowedRegistries[i]) > 0
              /\ Len(RepositoryOf(image[c])) > Len(s.AllowedRegistries[i])
        /\ verr[c] = NoError

(***************************************************************************)
(* C3: for a reference that does not hold exactly one delimiter, Validate  *)
(* fails with "image name is not formatted correctly" whatever             *)
(* AllowedRegistries holds, and invokes no collaborator.                   *)
(***************************************************************************)
C3_MalformedReference ==
    \A c \in Callers :
        (InCall(c) /\ Delimiters(image[c]) # 1)
        => /\ vpc[c] = "done"
           /\ verr[c] = ErrMalformedReference
           /\ invoked[c] = NoneInvoked

\* a finished call on a reference with two delimiters, its first part allowed
C3_Witness ==
    \E c \in Callers :
        /\ vpc[c] = "done"
        /\ Delimiters(image[c]) = 2
        /\ \E i \in 1..Len(s.AllowedRegistries) :
              StartsWith(RepositoryOf(image[c]), s.AllowedRegistries[i])
        /\ verr[c] = ErrMalformedReference

(***************************************************************************)
(* C4: when the trust lookup of a well-formed reference that is not        *)
(* allow-listed returns a target, Validate fails with "image hash is       *)
(* missing" for no hash entry and with "more than one hash for image" for  *)
(* two or more; the registry is fetched only after a target with exactly   *)
(* one entry, and that entry is the expected digest.                       *)
(***************************************************************************)
C4_ExactlyOneHash ==
    \A c \in Callers :
        /\ answered[c].target =>
              LET n == Cardinality(DOMAIN target[c])
              IN  /\ NotAllowListed(image[c])
                  /\ n = 0 => vpc[c] = "done" /\ verr[c] = ErrMissingHash
                  /\ n >= 2 => vpc[c] = "done" /\ verr[c] = ErrAmbiguousHash
                  /\ n = 1 =>
                        /\ vpc[c] = "registry" \/ invoked[c].registry = 1
                        /\ \A k \in DOMAIN target[c] : expectedShaBytes[c] = target[c][k]
        /\ (vpc[c] = "registry" \/ invoked[c].registry > 0) =>
              answered[c].target /\ Cardinality(DOMAIN target[c]) = 1

\* a call rejected for a target with two hash entries
C4_Witness ==
    \E c \in Callers :
        /\ vpc[c] = "done"
        /\ answered[c].target
        /\ Cardinality(DOMAIN target[c]) = 2
        /\ verr[c] = ErrAmbiguousHash
        /\ invoked[c].registry = 0

(***************************************************************************)
(* C5: a call of Validate whose context deadline expired while the trust   *)
(* lookup or the registry fetch was pending returns "context deadline      *)
(* exceeded"; the result of a finished call is the final-result form of    *)
(* the claim.                                                              *)
(***************************************************************************)
C5_DeadlineHonoured ==
    \A c \in Callers :
        (vpc[c] = "done" /\ expiredPending[c]) => verr[c] = ErrDeadlineExceeded

(***************************************************************************)
(* Vocabulary of the properties of the reconciler, stated on the arguments *)
(* of the call and the objects of the store.                               *)
(***************************************************************************)
\* the kind a wt value stands for: Mutating, and Validating otherwise
KindOf(w) ==
    IF w = "Mutating" THEN "MutatingWebhookConfiguration" ELSE "ValidatingWebhookConfiguration"

\* the fixed name of a kind's object
FixedName(kind) ==
    IF kind = "MutatingWebhookConfiguration"
    THEN "defaulting.webhook.warden.kyma-project.io"
    ELSE "validation.webhook.warden.kyma-project.io"

\* the failure policy of a kind: fail-closed for Mutating, fail-open for Validating
PolicyOf(kind) == IF kind = "MutatingWebhookConfiguration" THEN "Fail" ELSE "Ignore"

\* the objects of a kind in a store
OfKind(objects, kind) == {o \in objects : o.kind = kind}

\* a webhook list is the single rule set of a kind built from cfg
CarriesConfig(webhooks, kind, cfg) ==
    /\ Len(webhooks) = 1
    /\ webhooks[1].Name = FixedName(kind)
    /\ webhooks[1].ClientConfig.CABundle = cfg.CABundel
    /\ webhooks[1].ClientConfig.Service.Namespace = cfg.ServiceNamespace
    /\ webhooks[1].ClientConfig.Service.Name = cfg.ServiceName
    /\ webhooks[1].ClientConfig.Service.Port = 443
    /\ webhooks[1].TimeoutSeconds = 15
    /\ webhooks[1].Rules = << [APIGroups |-> <<"">>, APIVersions |-> <<"v1">>,
                               Resources |-> <<"pods">>, Scope |-> "*",
                               Operations |-> <<"CREATE", "UPDATE">>] >>

\* the step is the store's answer to the get, the create or the update of r
Answered(r, op) == rpc[r] = op /\ rpc'[r] # op

\* r returns nil in this step
ReturnsNil(r) == rpc[r] # "done" /\ rpc'[r] = "done" /\ rerr'[r] = NilError

(***************************************************************************)
(* C6: a reconcile whose get finds no object under the kind's fixed name   *)
(* issues one create and no update; when the create is accepted the store  *)
(* holds exactly one object of the kind, under the fixed name, whose       *)
(* webhook list is the single rule set built from config.                  *)
(***************************************************************************)
C6_CreateWhenAbsent ==
    [][\A r \in Reconcilers :
        /\ got'[r] = GotNotFound =>
              /\ rpc'[r] \in {"create", "done"}
              /\ ops'[r] = [get |-> 1, create |-> IF rpc'[r] = "done" THEN 1 ELSE 0,
                            update |-> 0]
        /\ (Answered(r, "get") /\ OfKind(store, KindOf(wt[r])) = {} /\ got'[r] # GotError)
              => got'[r] = GotNotFound
        /\ (Answered(r, "create") /\ rerr'[r] = NilError) =>
              \E o \in store' :
                  /\ OfKind(store', KindOf(wt[r])) = {o}
                  /\ o.ObjectMeta.Name = FixedName(KindOf(wt[r]))
                  /\ CarriesConfig(o.Webhooks, KindOf(wt[r]), config[r])
                  /\ store' \ {o} = store
    ]_vars

\* a validating object created by a reconcile that found none and returned nil
C6_Witness ==
    \E r \in Reconcilers :
        /\ rpc[r] = "done"
        /\ got[r] = GotNotFound
        /\ rerr[r] = NilError
        /\ wt[r] = "Validating"
        /\ \E o \in store : o.kind = "ValidatingWebhookConfiguration"
                               /\ o.ObjectMeta.ResourceVersion = 1

(***************************************************************************)
(* C7: a reconcile whose get finds an object whose webhook list differs    *)
(* from the desired one issues one update and no create; the object it     *)
(* hands to the update carries the metadata of the live object as fetched  *)
(* and the desired webhook list, and an accepted update leaves the object  *)
(* with its name and labels and with the desired webhook list.             *)
(***************************************************************************)
C7_UpdateWhenDrifted ==
    [][\A r \in Reconcilers :
        /\ got'[r] = GotDrift =>
              /\ rpc'[r] \in {"update", "done"}
              /\ ops'[r] = [get |-> 1, create |-> 0,
                            update |-> IF rpc'[r] = "done" THEN 1 ELSE 0]
        /\ (Answered(r, "get") /\ got'[r] = GotDrift) =>
              /\ whc'[r] \in OfKind(store, KindOf(wt[r]))
              /\ whc'[r].ObjectMeta.Name = FixedName(KindOf(wt[r]))
              /\ ~CarriesConfig(whc'[r].Webhooks, KindOf(wt[r]), config[r])
        /\ rpc'[r] = "update" =>
              /\ ensuredWhc'[r].ObjectMeta = whc'[r].ObjectMeta
              /\ ensuredWhc'[r].kind = whc'[r].kind
              /\ CarriesConfig(ensuredWhc'[r].Webhooks, KindOf(wt'[r]), config'[r])
        /\ (Answered(r, "update") /\ rerr'[r] = NilError) =>
              \E o \in store' :
                  /\ OfKind(store', KindOf(wt[r])) = {o}
                  /\ o.ObjectMeta.Name = whc[r].ObjectMeta.Name
                  /\ o.ObjectMeta.Labels = whc[r].ObjectMeta.Labels
                  /\ CarriesConfig(o.Webhooks, KindOf(wt[r]), config[r])
    ]_vars

\* an update was accepted for a live object that another actor had labelled
C7_Witness ==
    \E r \in Reconcilers :
        /\ rpc[r] = "done"
        /\ got[r] = GotDrift
        /\ rerr[r] = NilError
        /\ ops[r].update = 1
        /\ \E o \in store : /\ o.kind = KindOf(wt[r])
                               /\ o.ObjectMeta.Labels = {"edited"}
                               /\ o.ObjectMeta.ResourceVersion = 3

(***************************************************************************)
(* C8: a reconcile whose get finds an object whose webhook list equals the *)
(* desired one issues no create and no update and returns nil, whatever    *)
(* the metadata of the object; so does a reconcile with the config of the  *)
(* last reconcile of the kind that returned nil.                           *)
(***************************************************************************)
C8_NoWriteWhenEqual ==
    [][\A r \in Reconcilers :
        /\ got'[r] = GotSame =>
              /\ rpc'[r] = "done"
              /\ rerr'[r] = NilError
              /\ ops'[r] = [get |-> 1, create |-> 0, update |-> 0]
        /\ ( /\ Answered(r, "get")
              /\ got'[r] # GotError
              /\ \/ \E o \in OfKind(store, KindOf(wt[r])) :
                       CarriesConfig(o.Webhooks, KindOf(wt[r]), config[r])
                 \/ settled[KindOf(wt[r])] = config[r] )
              => /\ got'[r] = GotSame
                 /\ store' = store
    ]_vars

\* a reconcile returned nil without a write on an object that was updated and labelled
C8_Witness ==
    \E r \in Reconcilers :
        /\ rpc[r] = "done"
        /\ got[r] = GotSame
        /\ ops[r] = [get |-> 1, create |-> 0, update |-> 0]
        /\ \E o \in store : /\ o.kind = KindOf(wt[r])
                               /\ o.ObjectMeta.Labels = {"edited"}
                               /\ o.ObjectMeta.ResourceVersion > 1

(***************************************************************************)
(* C9: however concurrent reconciles of a kind interleave, the store never *)
(* holds more than one object of a kind under its fixed name, and a        *)
(* reconcile with config C that no other actor's write interleaved with    *)
(* and that returns nil leaves the live webhook list equal to the list     *)
(* built from C.                                                           *)
(***************************************************************************)
C9_RaceConverges ==
    [][/\ \A kind \in Kinds :
             Cardinality({o \in store' : o.kind = kind
                                         /\ o.ObjectMeta.Name = FixedName(kind)}) <= 1
       /\ \A r \in Reconcilers :
             (ReturnsNil(r) /\ ~disturbed[r]) =>
                 \E o \in OfKind(store', KindOf(wt[r])) :
                     /\ o.ObjectMeta.Name = FixedName(KindOf(wt[r]))
                     /\ CarriesConfig(o.Webhooks, KindOf(wt[r]), config[r])
    ]_vars

\* a lost update: the update of r was accepted after another actor's write
\* that r had not seen, while a second reconcile waits with its own write
C9_Witness ==
    \E r \in Reconcilers : \E q \in Reconcilers \ {r} :
        /\ rpc[r] = "done"
        /\ ops[r].update = 1
        /\ rerr[r] = NilError
        /\ disturbed[r]
        /\ rpc[q] \in {"create", "update"}
        /\ KindOf(wt[q]) = KindOf(wt[r])

(***************************************************************************)
(* C10: every object the reconciler hands to a create or an update has     *)
(* failure policy Fail for the Mutating kind and Ignore for the Validating *)
(* kind, and so has every live object; after a reconcile returned nil the  *)
(* kind's object is live.                                                  *)
(***************************************************************************)
C10_FailurePolicies ==
    /\ \A r \in Reconcilers :
          /\ rpc[r] \in {"create", "update"} =>
                /\ ensuredWhc[r].kind = KindOf(wt[r])
                /\ Len(ensuredWhc[r].Webhooks) >= 1
                /\ \A i \in 1..Len(ensuredWhc[r].Webhooks) :
                      ensuredWhc[r].Webhooks[i].FailurePolicy = PolicyOf(KindOf(wt[r]))
          /\ (rpc[r] = "done" /\ rerr[r] = NilError) =>
                OfKind(store, KindOf(wt[r])) # {}
    /\ \A o \in store :
          /\ Len(o.Webhooks) >= 1
          /\ \A i \in 1..Len(o.Webhooks) : o.Webhooks[i].FailurePolicy = PolicyOf(o.kind)

\* both kinds are live, the mutating object updated at least once
C10_Witness ==
    /\ \E o \in store : o.kind = "MutatingWebhookConfiguration"
                           /\ o.ObjectMeta.ResourceVersion > 1
                           /\ o.Webhooks[1].FailurePolicy = "Fail"
    /\ \E o \in store : o.kind = "ValidatingWebhookConfiguration"
                           /\ o.Webhooks[1].FailurePolicy = "Ignore"
    /\ \E r \in Reconcilers : rpc[r] = "done" /\ rerr[r] = NilError /\ ops[r].update = 1

\* the store operation a returned reconcile issued last
LastOp(r) ==
    IF ops[r].update > 0 THEN "update"
    ELSE IF ops[r].create > 0 THEN "create"
    ELSE "get"

(***************************************************************************)
(* C11: for both kinds, a reconcile that returns the failure of a get, a   *)
(* create or an update returns it wrapped with a message, and reconciles   *)
(* of one kind that failed in different operations return different        *)
(* messages; a reconcile whose store operations succeeded returns nil.     *)
(***************************************************************************)
C11_ErrorsNameTheOperation ==
    \A r \in Reconcilers :
        rpc[r] = "done" =>
            /\ (rerr[r].cause = "nil") => (rerr[r].msg = "")
            /\ (rerr[r].cause # "nil") =>
                  /\ rerr[r].msg # ""
                  /\ \A q \in Reconcilers :
                        ( /\ rpc[q] = "done"
                          /\ rerr[q].cause # "nil"
                          /\ KindOf(wt[q]) = KindOf(wt[r])
                          /\ LastOp(q) # LastOp(r) )
                        => rerr[q].msg # rerr[r].msg

\* r returns an error in this step
ReturnsError(r) ==
    /\ rpc[r] # "done"
    /\ rpc'[r] = "done"
    /\ rerr'[r] # [msg |-> "", cause |-> "nil"]

\* an object is whole: it carries its kind's fixed name, a resource version of
\* the store and the single rule set built from some config
Whole(o) ==
    /\ o.kind \in {"MutatingWebhookConfiguration", "ValidatingWebhookConfiguration"}
    /\ o.ObjectMeta.Name = FixedName(o.kind)
    /\ o.ObjectMeta.ResourceVersion >= 1
    /\ \E cfg \in WebhookConfigs : CarriesConfig(o.Webhooks, o.kind, cfg)

(***************************************************************************)
(* C12: the step in which a reconcile returns an error leaves the store as *)
(* it was, and that step is the only write the call attempted: after a     *)
(* failed get no create and no update was issued, after a failed create or *)
(* update the object is still absent or still the previous one.  Every     *)
(* object of every reachable store is whole.                               *)
(***************************************************************************)
C12_ErrorLeavesObject ==
    [][/\ \A r \in Reconcilers :
             ReturnsError(r) =>
                 /\ store' = store
                 /\ ops'[r].get = 1
                 /\ ops'[r].create + ops'[r].update <= 1
                 /\ Answered(r, "get") => (ops'[r].create = 0 /\ ops'[r].update = 0)
                 /\ Answered(r, "create") => OfKind(store', KindOf(wt[r])) = OfKind(store, KindOf(wt[r]))
                 /\ Answered(r, "update") =>
                       \A o \in OfKind(store', KindOf(wt[r])) : o \in store
       /\ \A o \in store' : Whole(o)
    ]_vars

\* a create that failed on an absent object and an update that failed on a
\* live one, both returned
C12_Witness ==
    \E r \in Reconcilers : \E q \in Reconcilers \ {r} :
        /\ rpc[r] = "done" /\ rerr[r].cause = "Unavailable" /\ ops[r].create = 1
        /\ OfKind(store, KindOf(wt[r])) = {}
        /\ rpc[q] = "done" /\ rerr[q].cause # "nil" /\ ops[q].update = 1
        /\ OfKind(store, KindOf(wt[q])) # {}

(***************************************************************************)
(* C13: for a reference with one delimiter that is not allow-listed and    *)
(* whose repository or tag is empty, Validate has returned "empty          *)
(* arguments provided" and has invoked neither the trust client factory,   *)
(* nor the target lookup, nor the registry fetch.                          *)
(***************************************************************************)
C13_EmptyArguments ==
    \A c \in Callers :
        ( /\ InCall(c)
          /\ NotAllowListed(image[c])
          /\ (Len(RepositoryOf(image[c])) = 0 \/ Len(TagOf(image[c])) = 0) )
        => /\ vpc[c] = "done"
           /\ verr[c] = "empty arguments provided"
           /\ invoked[c].factory = 0
           /\ invoked[c].lookup = 0
           /\ invoked[c].registry = 0

\* the reference ":" was refused, and so was one with a repository and no tag
C13_Witness ==
    \E c \in Callers :
        /\ vpc[c] = "done"
        /\ verr[c] = "empty arguments provided"
        /\ image[c] \in {<<":">>, <<"a", ":">>}
        /\ Len(s.AllowedRegistries) > 0
        /\ invoked[c].factory = 0

\* the kind a reconcile for wt value w does not reconcile
OtherKind(w) ==
    IF w = "Mutating" THEN "ValidatingWebhookConfiguration" ELSE "MutatingWebhookConfiguration"

\* the step is a step of the reconcile of r
StepOf(r) == rpc[r] \in {"get", "create", "update"} /\ rpc'[r] # rpc[r]

(***************************************************************************)
(* C14: no step removes the last object of a kind from the store, so a     *)
(* kind that has an object has one in every later state; and a step of a   *)
(* reconcile leaves the objects of the other kind as they are, reads only  *)
(* an object of its own kind and hands only an object of its own kind,     *)
(* under that kind's fixed name, to a create or an update.                 *)
(***************************************************************************)
C14_NoDeleteNoCrossKind ==
    [][/\ \A kind \in {"MutatingWebhookConfiguration", "ValidatingWebhookConfiguration"} :
             OfKind(store, kind) # {} => OfKind(store', kind) # {}
       /\ \A r \in Reconcilers :
             StepOf(r) =>
                 /\ OfKind(store', OtherKind(wt[r])) = OfKind(store, OtherKind(wt[r]))
                 /\ whc'[r].kind \in {"none", KindOf(wt[r])}
                 /\ rpc'[r] \in {"create", "update"} =>
                       /\ ensuredWhc'[r].kind = KindOf(wt[r])
                       /\ ensuredWhc'[r].ObjectMeta.Name = FixedName(KindOf(wt[r]))
    ]_vars

\* both kinds are live, the mutating object as it was created, and a
\* reconcile of the validating kind has updated its object
C14_Witness ==
    /\ \E o \in store : o.kind = "MutatingWebhookConfiguration"
                           /\ o.ObjectMeta.ResourceVersion = 1
    /\ \E o \in store : o.kind = "ValidatingWebhookConfiguration"
                           /\ o.ObjectMeta.ResourceVersion > 1
    /\ \E r \in Reconcilers :
          /\ rpc[r] = "done"
          /\ wt[r] # "Mutating"
          /\ ops[r].update = 1
          /\ rerr[r].cause = "nil"

\* what the call of c returns when it runs alone on its reference with the
\* answers its collaborators gave it
AloneResult(c) ==
    IF Delimiters(image[c]) # 1 THEN "image name is not formatted correctly"
    ELSE IF AllowListed(image[c]) THEN "nil"
    ELSE IF Len(RepositoryOf(image[c])) = 0 \/ Len(TagOf(image[c])) = 0
    THEN "empty arguments provided"
    ELSE IF answered[c].failure # "nil" THEN answered[c].failure
    ELSE IF Cardinality(DOMAIN target[c]) = 0 THEN "image hash is missing"
    ELSE IF Cardinality(DOMAIN target[c]) > 1 THEN "more than one hash for image"
    ELSE IF \A k \in DOMAIN target[c] : SameBytes(shaBytes[c], target[c][k]) THEN "nil"
    ELSE "unexpected image hash value"

(***************************************************************************)
(* C15: no step changes the validator's ServiceConfig, and whatever other  *)
(* calls are in progress or have returned, a call that has returned has    *)
(* returned what it returns alone on its reference with the answers its    *)
(* own collaborators gave it.                                              *)
(***************************************************************************)
C15_CallsIndependent ==
    [][/\ s' = s
       /\ \A c \in Callers :
             (vpc[c] # "done" /\ vpc'[c] = "done") => verr'[c] = AloneResult(c)'
    ]_vars

\* two calls on the same reference returned differently: the second caller's
\* digests differ while the first caller's are equal
C15_Witness ==
    /\ image["c1"] = image["c2"]
    /\ vpc["c1"] = "done" /\ verr["c1"] = "nil" /\ answered["c1"].digest
    /\ vpc["c2"] = "done" /\ verr["c2"] = "unexpected image hash value"
    /\ expectedShaBytes["c1"] # expectedShaBytes["c2"]
    /\ shaBytes["c1"] = shaBytes["c2"]

C17_FixedOrderFirstFailure ==
    \A c \in Callers :
        /\ invoked[c].factory <= 1
        /\ invoked[c].lookup <= invoked[c].factory
        /\ invoked[c].registry <= invoked[c].lookup
        /\ vpc[c] = "factory" => invoked[c].factory = 0
        /\ vpc[c] = "lookup" => (invoked[c].factory = 1 /\ invoked[c].lookup = 0)
        /\ vpc[c] = "registry" => (invoked[c].lookup = 1 /\ invoked[c].registry = 0)
        /\ invoked[c].registry = 1 =>
              (answered[c].target /\ Cardinality(DOMAIN target[c]) = 1)
        /\ answered[c].failure # "nil" =>
              /\ vpc[c] = "done"
              /\ verr[c] = answered[c].failure
              /\ ~answered[c].digest
              /\ ~answered[c].target => invoked[c].registry = 0
        /\ (answered[c].target /\ Cardinality(DOMAIN target[c]) # 1) =>
              /\ vpc[c] = "done"
              /\ verr[c] \in {"image hash is missing", "more than one hash for image"}
              /\ invoked[c].registry = 0

\* a call whose target lookup failed: it returned the lookup's error without
\* contacting the registry
C17_Witness ==
    \E c \in Callers :
        /\ vpc[c] = "done"
        /\ invoked[c] = [factory |-> 1, lookup |-> 1, registry |-> 0]
        /\ answered[c].failure # "nil"
        /\ verr[c] = answered[c].failure

(***************************************************************************)
(* C18: a reconcile issues one get and after it at most one write.  It     *)
(* goes on to a create only when the get found no object of its kind, and  *)
(* to an update only when the get found an object whose webhooks are not   *)
(* the ones built from its config; never to both.  The answer to a create  *)
(* or an update, whatever it is, ends the call: a refused create is not    *)
(* followed by an update, and no operation is issued a second time.        *)
(***************************************************************************)
C18_OneGetOneWrite ==
    [][\A r \in Reconcilers :
          /\ ops'[r].get <= 1
          /\ ops'[r].create + ops'[r].update <= 1
          /\ rpc'[r] \in {"create", "update", "done"} => ops'[r].get = 1
          /\ rpc'[r] \in {"get", "create", "update"} =>
                (ops'[r].create = 0 /\ ops'[r].update = 0)
          /\ Answered(r, "get") =>
                /\ rpc'[r] \in {"create", "update", "done"}
                /\ rpc'[r] = "create" => OfKind(store, KindOf(wt[r])) = {}
                /\ rpc'[r] = "update" =>
                      \E o \in OfKind(store, KindOf(wt[r])) :
                          ~CarriesConfig(o.Webhooks, KindOf(wt[r]), config[r])
          /\ Answered(r, "create") => (rpc'[r] = "done" /\ ops'[r].create = 1)
          /\ Answered(r, "update") => (rpc'[r] = "done" /\ ops'[r].update = 1)
    ]_vars

\* a create that the store refused because another reconcile had created the
\* object meanwhile: the call returned the error after one get and one create
C18_Witness ==
    \E r \in Reconcilers :
        /\ rpc[r] = "done"
        /\ rerr[r].cause = "AlreadyExists"
        /\ ops[r] = [get |-> 1, create |-> 1, update |-> 0]
        /\ OfKind(store, KindOf(wt[r])) # {}

(***************************************************************************)
(* C19: a reconcile called with the kind Mutating reads and writes the     *)
(* mutating object only; called with any other value, the kind Validating  *)
(* or one that is neither, it reconciles the validating object under the   *)
(* validation name, leaves the mutating objects as they are, and returns   *)
(* nil or an error of a store operation, never one about the kind.         *)
(***************************************************************************)
C19_Dispatch ==
    [][\A r \in Reconcilers :
          StepOf(r) =>
              /\ wt[r] = "Mutating" =>
                    /\ OfKind(store', "ValidatingWebhookConfiguration")
                          = OfKind(store, "ValidatingWebhookConfiguration")
                    /\ rpc'[r] \in {"create", "update"} =>
                          /\ ensuredWhc'[r].kind = "MutatingWebhookConfiguration"
                          /\ ensuredWhc'[r].ObjectMeta.Name
                                = "defaulting.webhook.warden.kyma-project.io"
              /\ wt[r] # "Mutating" =>
                    /\ OfKind(store', "MutatingWebhookConfiguration")
                          = OfKind(store, "MutatingWebhookConfiguration")
                    /\ rpc'[r] \in {"create", "update"} =>
                          /\ ensuredWhc'[r].kind = "ValidatingWebhookConfiguration"
                          /\ ensuredWhc'[r].ObjectMeta.Name
                                = "validation.webhook.warden.kyma-project.io"
                    /\ rpc'[r] = "done" =>
                          rerr'[r].cause \in {"nil", "Unavailable", "AlreadyExists",
                                              "Conflict", "NotFound"}
                    /\ (rpc[r] = "create" /\ rerr'[r].cause = "nil") =>
                          OfKind(store', "ValidatingWebhookConfiguration") # {}
    ]_vars

\* a reconcile called with a kind that is neither Mutating nor Validating has
\* created the validating object; there is no mutating object
C19_Witness ==
    \E r \in Reconcilers :
        /\ wt[r] \notin {"Mutating", "Validating"}
        /\ rpc[r] = "done"
        /\ rerr[r].cause = "nil"
        /\ ops[r].create = 1
        /\ OfKind(store, "ValidatingWebhookConfiguration") # {}
        /\ OfKind(store, "MutatingWebhookConfiguration") = {}

\* the orders a list's entries may be written in
Reorderings(list) ==
    {q \in [1..Len(list) -> {list[i] : i \in 1..Len(list)}] :
        \A i \in 1..Len(list) :
            Cardinality({j \in 1..Len(list) : q[j] = list[i]})
                = Cardinality({j \in 1..Len(list) : list[j] = list[i]})}

\* the call of c has returned success without invoking a collaborator
Bypassed(c) ==
    /\ vpc[c] = "done"
    /\ verr[c] = "nil"
    /\ invoked[c].factory = 0
    /\ invoked[c].lookup = 0
    /\ invoked[c].registry = 0

(***************************************************************************)
(* C20: a call on a reference with one delimiter whose repository starts   *)
(* with an entry of AllowedRegistries has succeeded without invoking a     *)
(* collaborator, whatever its tag, an empty one included; so has every     *)
(* call on a reference with one delimiter when an entry is the empty       *)
(* string.  Whether a call is let through this way is the same for every   *)
(* order the entries of AllowedRegistries may be written in.               *)
(***************************************************************************)
C20_AllowListFirst ==
    \A c \in Callers :
        (InCall(c) /\ Delimiters(image[c]) = 1) =>
            /\ AllowListed(image[c]) => Bypassed(c)
            /\ (\E i \in 1..Len(s.AllowedRegistries) : s.AllowedRegistries[i] = <<>>)
                  => Bypassed(c)
            /\ \A q \in Reorderings(s.AllowedRegistries) :
                  isImageAllowed(q, RepositoryOf(image[c])) <=> Bypassed(c)

\* a reference without a tag was let through on the second entry of the list
C20_Witness ==
    \E c \in Callers :
        /\ Len(s.AllowedRegistries) = 2
        /\ image[c] = s.AllowedRegistries[2] \o <<":">>
        /\ ~StartsWith(RepositoryOf(image[c]), s.AllowedRegistries[1])
        /\ Bypassed(c)

====
